---- MODULE Spec2Model ----
(***************************************************************************)
(* Chapter generation workflow of the novel generator.                     *)
(*                                                                         *)
(* One project with its chapters and beats (the database rows), the pause  *)
(* registry, the controller endpoints (generate-chapters, pause, resume)   *)
(* and the background tasks that run generate_chapters_logic ->            *)
(* generate_all_chapters -> generate_chapter -> _write_beat_with_editing.  *)
(* Every database commit and every remote call of a task is one step, so   *)
(* that the endpoints and a second task can interleave with a running one. *)
(* A task runs in the API process or in a celery worker process, which has *)
(* a pause registry of its own.  The graph workflow (graph.py) is modelled *)
(* for one beat, next to the loop of _write_beat_with_editing.             *)
(*                                                                         *)
(* Texts are sequences of characters.  The remote generation calls are     *)
(* stubbed: with stubs = "reviewer" the review returns any report and the  *)
(* decomposition any number of beats, with stubs = "writer" the write and  *)
(* rewrite calls return any prose, with stubs = "det" every call is a      *)
(* deterministic stub, with stubs = "beater" the decomposition returns any *)
(* list of beat types.                                                     *)
(***************************************************************************)
EXTENDS Integers, Sequences, FiniteSets, TLC

\* ------------------------------------------------------------------ bounds
NumChapters == 2
MaxBeats == 2

\* --------------------------------------------------------------- constants
max_revisions == 3
min_acceptable_quality == 6
MinQuality == 1
MaxQuality == 10

project_id == "p1"
Slots == <<"w1", "w2">>
Workers == {Slots[k] : k \in 1..Len(Slots)}
ProseSet == {<<>>, <<"a">>}
Separator == <<"\n", "\n">>
None == <<"None">>
NoReport == [overall_quality |-> 0, recommend_rewrite |-> FALSE]
NoProgress == -1
Qualities == MinQuality..MaxQuality
Reports == [overall_quality : Qualities, recommend_rewrite : BOOLEAN]

VARIABLES
    project,        \* the Project row: status, current_chapter
    chapters,       \* the Chapter rows by order: status, raw_text
    beats,          \* the Beat rows of each chapter's scene, in insertion order
    pause_signals,  \* the pause registry: set of project ids
    task,           \* the background tasks: local variables and position
    stubs,          \* which generation calls are unconstrained
    pool,           \* the task slots that may run
    backing,        \* where the tasks run: "memory" (API process) or "celery"
    worker_signals, \* the pause registry of the celery worker process
    scenes,         \* the Scene rows of each chapter: raw_text
    indexed,        \* the chapters with a scene in the vector index
    graph           \* the NovelState of the graph workflow, and its calls

vars == <<project, chapters, beats, pause_signals, task, stubs, pool,
          backing, worker_signals, scenes, indexed, graph>>

\* ----------------------------------------------------------- pure helpers

\* chapter_text += "\n\n" + beat_text if chapter_text else beat_text
AppendBeat(chapter_text, beat_text) ==
    IF chapter_text # <<>> THEN chapter_text \o Separator \o beat_text
    ELSE beat_text

\* variants of the loop guard: one iteration too many, one too few
LoopContinuesInclusive(revision_count) == revision_count <= max_revisions
LoopContinuesShort(revision_count) == revision_count < max_revisions - 1

\* while revision_count < self.max_revisions
LoopContinues(revision_count) == revision_count < max_revisions

\* variant: the counter is never advanced
NextRevisionCountStuck(revision_count) == revision_count

\* revision_count += 1
NextRevisionCount(revision_count) == revision_count + 1

\* variant: the second break is missing
AcceptableByScoreOnly(report) ==
    report.overall_quality >= min_acceptable_quality

\* if report.overall_quality >= min_acceptable_quality: break
\* if not report.recommend_rewrite: break
Acceptable(report) ==
    \/ report.overall_quality >= min_acceptable_quality
    \/ ~report.recommend_rewrite

\* variant: the registry is never seen as set
check_pause_blind(pid) == FALSE

\* _pause_signals is a module-level set: a task in the API process shares
\* the set signal_pause filled, a celery worker process has a set of its own
WorkerRegistry == IF backing = "celery" THEN worker_signals ELSE pause_signals

\* check_pause(project_id), called by the progress callback of the task
check_pause(pid) == pid \in WorkerRegistry

\* signal_pause(project_id): _pause_signals.add(project_id)
signal_pause(signals, pid) == signals \cup {pid}

\* select(Beat).join(Scene).where(Scene.chapter_id == chapter.id).order_by(Beat.order)
RECURSIVE RowsFrom(_, _)
RowsFrom(rows, o) ==
    IF o > MaxBeats THEN <<>>
    ELSE SelectSeq([r \in 1..Len(rows) |-> r], LAMBDA r : rows[r].order = o)
         \o RowsFrom(rows, o + 1)

SortedRows(rows) == RowsFrom(rows, 1)

\* beat types a decomposition may return (two of the six are enough here)
BeatTypes == {"action", "revelation"}

\* the deterministic decomposition stub alternates the beat types
StubBeatType(k) == IF k % 2 = 1 THEN "action" ELSE "revelation"
StubBeats(n) == [k \in 1..n |-> StubBeatType(k)]

\* Beat(order=i + 1, beat_type=beat_data.beat_type, status="pending")
\* for each beat of the decomposition
NewBeatsOfTypes(types) ==
    [k \in 1..Len(types) |->
        [order |-> k, beat_type |-> types[k], status |-> "pending",
         raw_text |-> None]]

NewBeats(n) == NewBeatsOfTypes(StubBeats(n))

\* .where(Chapter.order >= start_chapter).where(Chapter.status == "pending")
\* .order_by(Chapter.order)
PendingFrom(start_chapter) ==
    SelectSeq([c \in 1..NumChapters |-> c],
              LAMBDA c : c >= start_chapter /\ chapters[c].status = "pending")

\* deterministic generation stubs
StubProse(order) == IF order % 2 = 1 THEN <<"a">> ELSE <<"b">>
StubReport == [overall_quality |-> 8, recommend_rewrite |-> FALSE]
StubBeatCount == MaxBeats

WriteResults(order) == IF stubs = "writer" THEN ProseSet ELSE {StubProse(order)}
ReviewResults == IF stubs = "reviewer" THEN Reports ELSE {StubReport}
DecomposeResults ==
    IF stubs = "reviewer" THEN {StubBeats(n) : n \in 0..MaxBeats}
    ELSE IF stubs = "beater" THEN [1..MaxBeats -> BeatTypes]
    ELSE {StubBeats(StubBeatCount)}

Idle ==
    [pc |-> "idle", start_chapter |-> 0, todo |-> <<>>, chapter |-> 0,
     blist |-> <<>>, i |-> 0, chapter_text |-> <<>>, prose |-> <<>>,
     revision_count |-> 0, beat_revision_count |-> 0, report |-> NoReport,
     all_rejected |-> FALSE, resumed |-> FALSE, outcome |-> "none",
     completed_beats |-> NoProgress]

\* the graph workflow is not running; the reviews it would get
GraphIdle ==
    [node |-> "END", revision_count |-> 0, current_beat_idx |-> 0,
     reviews |-> 0, rewrites |-> 0,
     script |-> [k \in 1..max_revisions |-> StubReport]]

Set(w, r) == task' = [task EXCEPT ![w] = r]

\* background_tasks.add_task: the task takes the first free slot
Free(w) == w \in pool /\ task[w].pc = "idle"
FirstFree(w) ==
    \E k \in 1..Len(Slots) :
        /\ w = Slots[k]
        /\ Free(w)
        /\ \A j \in 1..(k - 1) : ~Free(Slots[j])

CurrentRow(w) == task[w].blist[task[w].i]

\* ------------------------------------------------------------------- Init
InitRows ==
    /\ project = [status |-> "outline_approved", current_chapter |-> 0]
    /\ chapters = [c \in 1..NumChapters |-> [status |-> "pending", raw_text |-> None]]
    /\ beats = [c \in 1..NumChapters |-> <<>>]
    /\ pause_signals = {}
    /\ task = [w \in Workers |-> Idle]
    /\ worker_signals = {}
    /\ scenes = [c \in 1..NumChapters |-> <<>>]
    /\ indexed = {}

\* one background task in flight at a time
Init ==
    /\ InitRows
    /\ stubs \in {"reviewer", "writer", "det"}
    /\ pool = {"w1"}
    /\ backing = "memory"
    /\ graph = GraphIdle

\* two background tasks may be in flight, deterministic generation stubs
InitConc ==
    /\ InitRows
    /\ stubs = "det"
    /\ pool = Workers
    /\ backing = "memory"
    /\ graph = GraphIdle

\* one background task in flight, the decomposition returns any beat types
InitBeater ==
    /\ InitRows
    /\ stubs = "beater"
    /\ pool = {"w1"}
    /\ backing = "memory"
    /\ graph = GraphIdle

\* one background task in flight, deterministic generation stubs
InitEdit ==
    /\ InitRows
    /\ stubs = "det"
    /\ pool = {"w1"}
    /\ backing = "memory"
    /\ graph = GraphIdle

\* ------------------------------------------------------------- endpoints

\* POST /{project_id}/generate-chapters
generate_chapters(w, chapter_number) ==
    /\ project.status = "outline_approved"
    /\ FirstFree(w)
    /\ project' = [project EXCEPT !.status = "generating"]
    /\ Set(w, [Idle EXCEPT !.pc = "queued", !.start_chapter = chapter_number])
    /\ UNCHANGED <<chapters, beats, pause_signals, stubs, pool,
                 backing, worker_signals, scenes, indexed, graph>>

\* variant: pause is also accepted on a paused project
pause_generation_lax ==
    /\ project.status \in {"generating", "paused"}
    /\ project' = [project EXCEPT !.status = "paused"]
    /\ pause_signals' = signal_pause(pause_signals, project_id)
    /\ UNCHANGED <<chapters, beats, task, stubs, pool,
                 backing, worker_signals, scenes, indexed, graph>>

\* POST /{project_id}/pause
pause_generation ==
    /\ project.status = "generating"
    /\ project' = [project EXCEPT !.status = "paused"]
    /\ pause_signals' = signal_pause(pause_signals, project_id)
    /\ UNCHANGED <<chapters, beats, task, stubs, pool,
                 backing, worker_signals, scenes, indexed, graph>>

\* POST /{project_id}/resume
resume_generation(w) ==
    /\ project.status = "paused"
    /\ FirstFree(w)
    /\ project' = [project EXCEPT !.status = "generating"]
    /\ Set(w, [Idle EXCEPT !.pc = "queued",
                           !.start_chapter = project.current_chapter + 1,
                           !.resumed = TRUE])
    /\ UNCHANGED <<chapters, beats, pause_signals, stubs, pool,
                 backing, worker_signals, scenes, indexed, graph>>

\* PATCH /chapters/{chapter_id} with status = "pending"
\* (at most one reset of a chapter, to keep the beat table finite)
update_chapter(c) ==
    /\ chapters[c].status # "pending"
    /\ Len(beats[c]) <= MaxBeats
    /\ chapters' = [chapters EXCEPT ![c].status = "pending"]
    /\ UNCHANGED <<project, beats, pause_signals, task, stubs, pool,
                 backing, worker_signals, scenes, indexed, graph>>

\* ------------------------------------------------------------------ tasks

\* generate_chapters_logic -> generate_all_chapters: select the chapters
generate_all_chapters(w) ==
    /\ task[w].pc = "queued"
    /\ Set(w, [task[w] EXCEPT !.pc = "next_chapter",
                              !.todo = PendingFrom(task[w].start_chapter)])
    /\ UNCHANGED <<project, chapters, beats, pause_signals, stubs, pool,
                 backing, worker_signals, scenes, indexed, graph>>

\* generate_chapter: chapter.status = "generating"; commit
BeginChapter(w) ==
    /\ task[w].pc = "next_chapter"
    /\ task[w].todo # <<>>
    /\ LET c == Head(task[w].todo) IN
        /\ chapters' = [chapters EXCEPT ![c].status = "generating"]
        /\ Set(w, [task[w] EXCEPT !.pc = "decompose", !.chapter = c])
    /\ UNCHANGED <<project, beats, pause_signals, stubs, pool,
                 backing, worker_signals, scenes, indexed, graph>>

\* if not scene: scene = Scene(chapter_id=chapter.id, order=1, ...)
\* inside the loop over the beats of the decomposition
SceneRows(rows, types) ==
    IF types # <<>> /\ rows = <<>> THEN <<[order |-> 1, raw_text |-> None]>>
    ELSE rows

\* generate_chapter steps 1-2: context, generate_beats, store the beats
\* and their scene, commit, chapter_text = "", load the beats ordered by
\* Beat.order
Decompose(w) ==
    /\ task[w].pc = "decompose"
    /\ \E types \in DecomposeResults :
        LET c == task[w].chapter
            rows == beats[c] \o NewBeatsOfTypes(types) IN
        /\ beats' = [beats EXCEPT ![c] = rows]
        /\ scenes' = [scenes EXCEPT ![c] = SceneRows(@, types)]
        /\ Set(w, [task[w] EXCEPT !.pc = "boundary", !.blist = SortedRows(rows),
                                  !.i = 1, !.chapter_text = <<>>,
                                  !.completed_beats = NoProgress])
    /\ UNCHANGED <<project, chapters, pause_signals, stubs, pool,
                 backing, worker_signals, indexed, graph>>

\* progress_callback(..., completed_beats=i, ...) with i of enumerate(beats),
\* the number of beats before the one about to be written
ProgressAt(i) == i - 1

\* for i, beat in enumerate(beats): progress_callback(...) does not raise
BeatBoundary(w) ==
    /\ task[w].pc = "boundary"
    /\ task[w].i <= Len(task[w].blist)
    /\ ~check_pause(project_id)
    /\ Set(w, [task[w] EXCEPT !.pc = "write",
                              !.completed_beats = ProgressAt(task[w].i)])
    /\ UNCHANGED <<project, chapters, beats, pause_signals, stubs, pool,
                 backing, worker_signals, scenes, indexed, graph>>

\* clear_pause(project_id), called by the progress callback of the task:
\* _pause_signals.discard(project_id) on the set of its own process
clear_pause(pid) ==
    IF backing = "celery"
    THEN worker_signals' = worker_signals \ {pid} /\ UNCHANGED pause_signals
    ELSE pause_signals' = pause_signals \ {pid} /\ UNCHANGED worker_signals

\* variant: the flag is also consulted inside the write/review/revise cycle
InterruptMidBeat(w) ==
    /\ task[w].pc \in {"boundary", "review"}
    /\ task[w].i <= Len(task[w].blist)
    /\ check_pause(project_id)
    /\ clear_pause(project_id)
    /\ Set(w, [task[w] EXCEPT !.pc = "interrupted"])
    /\ UNCHANGED <<project, chapters, beats, stubs, pool,
                 backing, scenes, indexed, graph>>

\* local_progress_callback: check_pause -> clear_pause; raise InterruptedError
Interrupt(w) ==
    /\ task[w].pc = "boundary"
    /\ task[w].i <= Len(task[w].blist)
    /\ check_pause(project_id)
    /\ clear_pause(project_id)
    /\ Set(w, [task[w] EXCEPT !.pc = "interrupted"])
    /\ UNCHANGED <<project, chapters, beats, stubs, pool,
                 backing, scenes, indexed, graph>>

\* except InterruptedError: project.status = "paused"; commit
HandleInterrupt(w) ==
    /\ task[w].pc = "interrupted"
    /\ project' = [project EXCEPT !.status = "paused"]
    /\ Set(w, [task[w] EXCEPT !.pc = "done", !.outcome = "paused", !.todo = <<>>,
                              !.blist = <<>>, !.chapter_text = <<>>])
    /\ UNCHANGED <<chapters, beats, pause_signals, stubs, pool,
                 backing, worker_signals, scenes, indexed, graph>>

\* _write_beat_with_editing: initial write, revision_count = 0
WriteBeat(w) ==
    /\ task[w].pc = "write"
    /\ \E p \in WriteResults(beats[task[w].chapter][CurrentRow(w)].order) :
        Set(w, [task[w] EXCEPT !.pc = "review", !.prose = p,
                               !.revision_count = 0, !.beat_revision_count = 0,
                               !.all_rejected = TRUE])
    /\ UNCHANGED <<project, chapters, beats, pause_signals, stubs, pool,
                 backing, worker_signals, scenes, indexed, graph>>

\* while revision_count < max_revisions: report = review_prose(prose)
Review(w) ==
    /\ task[w].pc = "review"
    /\ IF LoopContinues(task[w].revision_count)
       THEN \E r \in ReviewResults :
                Set(w, [task[w] EXCEPT !.pc = "decide", !.report = r,
                        !.all_rejected = task[w].all_rejected /\ ~Acceptable(r)])
       ELSE Set(w, [task[w] EXCEPT !.pc = "persist"])
    /\ UNCHANGED <<project, chapters, beats, pause_signals, stubs, pool,
                 backing, worker_signals, scenes, indexed, graph>>

\* the two breaks, else rewrite_with_feedback; revision_count += 1;
\* beat.revision_count = revision_count
Decide(w) ==
    /\ task[w].pc = "decide"
    /\ IF Acceptable(task[w].report)
       THEN Set(w, [task[w] EXCEPT !.pc = "persist"])
       ELSE \E p \in WriteResults(beats[task[w].chapter][CurrentRow(w)].order) :
              LET rc == NextRevisionCount(task[w].revision_count) IN
              Set(w, [task[w] EXCEPT !.pc = "review", !.report = NoReport,
                                     !.prose = p, !.revision_count = rc,
                                     !.beat_revision_count = rc])
    /\ UNCHANGED <<project, chapters, beats, pause_signals, stubs, pool,
                 backing, worker_signals, scenes, indexed, graph>>

\* append to chapter_text; beat.raw_text, beat.status = "completed"; commit
PersistBeat(w) ==
    /\ task[w].pc = "persist"
    /\ beats' = [beats EXCEPT
                   ![task[w].chapter][CurrentRow(w)].raw_text = task[w].prose,
                   ![task[w].chapter][CurrentRow(w)].status = "completed"]
    /\ Set(w, [task[w] EXCEPT !.pc = "boundary", !.i = task[w].i + 1,
                 !.chapter_text = AppendBeat(task[w].chapter_text, task[w].prose),
                 !.prose = <<>>, !.revision_count = 0, !.beat_revision_count = 0,
                 !.report = NoReport, !.all_rejected = FALSE])
    /\ UNCHANGED <<project, chapters, pause_signals, stubs, pool,
                 backing, worker_signals, scenes, indexed, graph>>

\* _index_chapter: for scene in scenes: if scene.raw_text: index_scene(...)
IndexedScenes(c) ==
    IF \E k \in 1..Len(scenes[c]) : scenes[c][k].raw_text \notin {None, <<>>}
    THEN {c} ELSE {}

\* Step 4: chapter.raw_text, status = "completed", project.current_chapter;
\* commit; _index_chapter
FinalizeChapter(w) ==
    /\ task[w].pc = "boundary"
    /\ task[w].i > Len(task[w].blist)
    /\ chapters' = [chapters EXCEPT
                      ![task[w].chapter] = [status |-> "completed",
                                            raw_text |-> task[w].chapter_text]]
    /\ project' = [project EXCEPT !.current_chapter = task[w].chapter]
    /\ indexed' = indexed \cup IndexedScenes(task[w].chapter)
    /\ Set(w, [task[w] EXCEPT !.pc = "next_chapter", !.todo = Tail(task[w].todo),
                              !.blist = <<>>, !.i = 0, !.chapter_text = <<>>,
                              !.completed_beats = NoProgress])
    /\ UNCHANGED <<beats, pause_signals, stubs, pool,
                 backing, worker_signals, scenes, graph>>

\* generate_all_chapters: project.status = "completed"; commit
MarkProjectCompleted(w) ==
    /\ task[w].pc = "next_chapter"
    /\ task[w].todo = <<>>
    /\ project' = [project EXCEPT !.status = "completed"]
    /\ Set(w, [task[w] EXCEPT !.pc = "done", !.outcome = "completed"])
    /\ UNCHANGED <<chapters, beats, pause_signals, stubs, pool,
                 backing, worker_signals, scenes, indexed, graph>>

\* the background task returns
TaskReturn(w) ==
    /\ task[w].pc = "done"
    /\ Set(w, Idle)
    /\ UNCHANGED <<project, chapters, beats, pause_signals, stubs, pool,
                 backing, worker_signals, scenes, indexed, graph>>

TaskStep(w) ==
    \/ generate_all_chapters(w)
    \/ BeginChapter(w)
    \/ Decompose(w)
    \/ BeatBoundary(w)
    \/ Interrupt(w)
    \/ HandleInterrupt(w)
    \/ WriteBeat(w)
    \/ Review(w)
    \/ Decide(w)
    \/ PersistBeat(w)
    \/ FinalizeChapter(w)
    \/ MarkProjectCompleted(w)
    \/ TaskReturn(w)

Next ==
    \/ \E w \in Workers, n \in 1..NumChapters : generate_chapters(w, n)
    \/ pause_generation
    \/ \E w \in Workers : resume_generation(w)
    \/ \E w \in Workers : TaskStep(w)

Spec == Init /\ [][Next]_vars

SpecConc == InitConc /\ [][Next]_vars

SpecBeater == InitBeater /\ [][Next]_vars

\* the event loop resumes a task whenever the call it awaits has returned
FairSpec == Init /\ [][Next]_vars /\ \A w \in Workers : WF_vars(TaskStep(w))

NextEdit ==
    \/ Next
    \/ \E c \in 1..NumChapters : update_chapter(c)

SpecEdit == InitEdit /\ [][NextEdit]_vars

\* ------------------------------------------------- failing remote calls

\* one background task in flight, deterministic stubs, calls may raise
InitFaulty ==
    /\ InitRows
    /\ stubs = "det"
    /\ pool = {"w1"}
    /\ backing = "memory"
    /\ graph = GraphIdle

\* a lookup of lorekeeper.assemble_context_for_writing raises: nothing
\* catches it before the except Exception of generate_chapters_logic
ContextFails(w) ==
    /\ task[w].pc = "decompose"
    /\ Set(w, [task[w] EXCEPT !.pc = "done", !.outcome = "error_context",
                              !.todo = <<>>])
    /\ UNCHANGED <<project, chapters, beats, pause_signals, stubs, pool,
                 backing, worker_signals, scenes, indexed, graph>>

\* variant: a failed decomposition leaves a first beat row behind
DecomposeFailsPartial(w) ==
    /\ task[w].pc = "decompose"
    /\ beats' = [beats EXCEPT ![task[w].chapter] = @ \o NewBeats(1)]
    /\ Set(w, [task[w] EXCEPT !.pc = "done", !.outcome = "error_decompose",
                              !.todo = <<>>])
    /\ UNCHANGED <<project, chapters, pause_signals, stubs, pool,
                 backing, worker_signals, scenes, indexed, graph>>

\* beater.generate_beats raises: the rows are stored only after it returned
DecomposeFails(w) ==
    /\ task[w].pc = "decompose"
    /\ Set(w, [task[w] EXCEPT !.pc = "done", !.outcome = "error_decompose",
                              !.todo = <<>>])
    /\ UNCHANGED <<project, chapters, beats, pause_signals, stubs, pool,
                 backing, worker_signals, scenes, indexed, graph>>

\* writer.write_beat, editor.review_prose or writer.rewrite_with_feedback
\* raises inside _write_beat_with_editing: no except and no retry before
\* the except Exception of generate_chapters_logic
BeatCallFails(w) ==
    /\ \/ task[w].pc = "write"
       \/ task[w].pc = "review" /\ LoopContinues(task[w].revision_count)
       \/ task[w].pc = "decide" /\ ~Acceptable(task[w].report)
    /\ Set(w, [task[w] EXCEPT !.pc = "done", !.outcome = "error_beat",
                              !.todo = <<>>])
    /\ UNCHANGED <<project, chapters, beats, pause_signals, stubs, pool,
                   backing, worker_signals, scenes, indexed, graph>>

NextFaulty ==
    \/ Next
    \/ \E w \in Workers : ContextFails(w)
    \/ \E w \in Workers : DecomposeFails(w)
    \/ \E w \in Workers : BeatCallFails(w)

SpecFaulty == InitFaulty /\ [][NextFaulty]_vars

\* ------------------------------------------------------ outline lifecycle

\* a project that was just created: no outline, no chapter rows yet
InitLifecycle ==
    /\ project = [status |-> "draft", current_chapter |-> 0]
    /\ chapters = <<>>
    /\ beats = [c \in 1..NumChapters |-> <<>>]
    /\ pause_signals = {}
    /\ task = [w \in Workers |-> Idle]
    /\ worker_signals = {}
    /\ scenes = [c \in 1..NumChapters |-> <<>>]
    /\ indexed = {}
    /\ stubs = "det"
    /\ pool = {"w1"}
    /\ backing = "memory"
    /\ graph = GraphIdle

\* variant: the outline may be started in every status
outline_startable_any(status) == TRUE

\* if project.status not in [ProjectStatus.DRAFT.value, "outline_rejected"]: 400
outline_startable(status) == status \in {"draft", "outline_rejected"}

\* POST /{project_id}/generate-outline
generate_outline(w) ==
    /\ outline_startable(project.status)
    /\ FirstFree(w)
    /\ project' = [project EXCEPT !.status = "outlining"]
    /\ Set(w, [Idle EXCEPT !.pc = "outline_queued"])
    /\ UNCHANGED <<chapters, beats, pause_signals, stubs, pool,
                 backing, worker_signals, scenes, indexed, graph>>

\* InitializationWorkflow.run: generate_bible, save_bible_to_db
\* (project.status = "outline_pending_approval", the Chapter rows; commit)
SaveBible(w) ==
    /\ task[w].pc = "outline_queued"
    /\ project' = [project EXCEPT !.status = "outline_pending_approval"]
    /\ chapters' = chapters \o
            [c \in 1..NumChapters |-> [status |-> "pending", raw_text |-> None]]
    /\ Set(w, [task[w] EXCEPT !.pc = "outline_saved"])
    /\ UNCHANGED <<beats, pause_signals, stubs, pool,
                 backing, worker_signals, scenes, indexed, graph>>

\* index_in_vector_db returned; generate_outline_logic:
\* project.status = "outline_pending_approval"; commit
OutlineDone(w) ==
    /\ task[w].pc = "outline_saved"
    /\ project' = [project EXCEPT !.status = "outline_pending_approval"]
    /\ Set(w, [task[w] EXCEPT !.pc = "done", !.outcome = "outlined"])
    /\ UNCHANGED <<chapters, beats, pause_signals, stubs, pool,
                 backing, worker_signals, scenes, indexed, graph>>

\* generate_bible or index_in_vector_db raises: except Exception prints
OutlineFails(w) ==
    /\ task[w].pc \in {"outline_queued", "outline_saved"}
    /\ Set(w, [task[w] EXCEPT !.pc = "done", !.outcome = "error_outline"])
    /\ UNCHANGED <<project, chapters, beats, pause_signals, stubs, pool,
                 backing, worker_signals, scenes, indexed, graph>>

\* POST /{project_id}/approve-outline: approve, or queue the revision
approve_outline(approved) ==
    /\ project.status = "outline_pending_approval"
    /\ IF approved
       THEN /\ project' = [project EXCEPT !.status = "outline_approved"]
            /\ UNCHANGED task
       ELSE /\ \E w \in Workers :
                 FirstFree(w) /\ Set(w, [Idle EXCEPT !.pc = "revise_queued"])
            /\ UNCHANGED project
    /\ UNCHANGED <<chapters, beats, pause_signals, stubs, pool,
                 backing, worker_signals, scenes, indexed, graph>>

\* revise_outline_logic -> InitializationWorkflow.revise_outline (placeholder)
ReviseOutline(w) ==
    /\ task[w].pc = "revise_queued"
    /\ Set(w, [task[w] EXCEPT !.pc = "done", !.outcome = "revised"])
    /\ UNCHANGED <<project, chapters, beats, pause_signals, stubs, pool,
                 backing, worker_signals, scenes, indexed, graph>>

NextLifecycle ==
    \/ Next
    \/ \E w \in Workers : generate_outline(w)
    \/ \E w \in Workers : SaveBible(w)
    \/ \E w \in Workers : OutlineDone(w)
    \/ \E w \in Workers : OutlineFails(w)
    \/ \E approved \in BOOLEAN : approve_outline(approved)
    \/ \E w \in Workers : ReviseOutline(w)

SpecLifecycle == InitLifecycle /\ [][NextLifecycle]_vars

\* ------------------------------------------------------- celery backing

\* one background task in flight, run by the API process (BackgroundTasks)
\* or by a celery worker process (generate_chapters_task.delay)
InitBackings ==
    /\ InitRows
    /\ stubs = "det"
    /\ pool = {"w1"}
    /\ backing \in {"memory", "celery"}
    /\ graph = GraphIdle

SpecBackings == InitBackings /\ [][Next]_vars

\* ------------------------------------------------------- graph workflow

\* the graph workflow writes one beat; its reviews return script[1], ...
InitGraph ==
    /\ InitRows
    /\ stubs = "det"
    /\ pool = {"w1"}
    /\ backing = "memory"
    /\ graph \in {[GraphIdle EXCEPT !.node = "write_beat", !.script = s] :
                     s \in [1..max_revisions -> Reports]}

\* _route_after_edit
route_after_edit(report, revision_count) ==
    IF report.overall_quality >= 6 \/ revision_count >= 3 THEN "accept"
    ELSE IF report.recommend_rewrite THEN "rewrite"
    ELSE "accept"

\* _node_write_beat, reached from decompose_scene, from update_memory or,
\* for a rewrite, from edit_beat
node_write_beat ==
    /\ graph.node = "write_beat"
    /\ graph' = [graph EXCEPT !.node = "edit_beat"]
    /\ UNCHANGED <<project, chapters, beats, pause_signals, task, stubs, pool,
                   backing, worker_signals, scenes, indexed>>

\* _node_edit_beat: review_prose, revision_count + 1; then _route_after_edit:
\* accept -> update_memory, rewrite -> write_beat
node_edit_beat ==
    /\ graph.node = "edit_beat"
    /\ LET report == graph.script[graph.reviews + 1]
           revision_count == graph.revision_count + 1
           route == route_after_edit(report, revision_count) IN
        graph' = [graph EXCEPT
                    !.revision_count = revision_count,
                    !.reviews = @ + 1,
                    !.rewrites = IF route = "rewrite" THEN @ + 1 ELSE @,
                    !.node = IF route = "rewrite" THEN "write_beat"
                             ELSE "update_memory"]
    /\ UNCHANGED <<project, chapters, beats, pause_signals, task, stubs, pool,
                   backing, worker_signals, scenes, indexed>>

\* _node_update_memory: current_beat_idx + 1, revision_count = 0; the scene
\* has this one beat, so _route_after_memory_update ends it
node_update_memory ==
    /\ graph.node = "update_memory"
    /\ graph' = [graph EXCEPT !.node = "END", !.revision_count = 0,
                              !.current_beat_idx = @ + 1]
    /\ UNCHANGED <<project, chapters, beats, pause_signals, task, stubs, pool,
                   backing, worker_signals, scenes, indexed>>

NextGraph ==
    \/ node_write_beat
    \/ node_edit_beat
    \/ node_update_memory

SpecGraph == InitGraph /\ [][NextGraph]_vars

\* _write_beat_with_editing on the same reviews: the reviews and rewrites
\* it has made when it returns
RECURSIVE LoopRun(_, _, _)
LoopRun(script, revision_count, reviews) ==
    IF ~LoopContinues(revision_count)
    THEN [reviews |-> reviews, rewrites |-> revision_count]
    ELSE IF Acceptable(script[reviews + 1])
    THEN [reviews |-> reviews + 1, rewrites |-> revision_count]
    ELSE LoopRun(script, NextRevisionCount(revision_count), reviews + 1)

write_beat_with_editing(script) == LoopRun(script, 0, 0)


\* ------------------------------------------------------------ properties

\* C1: in every reachable state of the beat pipeline the revision count of
\* the beat in flight, and the value stored on the beat, is at most
\* max_revisions.
C1_RevisionCountWithinCap ==
    \A w \in Workers :
        /\ task[w].revision_count <= max_revisions
        /\ task[w].beat_revision_count <= max_revisions

C1_Witness ==
    \E w \in Workers :
        /\ task[w].pc = "review"
        /\ task[w].beat_revision_count = max_revisions

\* C2: a beat whose reviews were all below the threshold with
\* recommend_rewrite set is accepted after exactly max_revisions rewrites,
\* with revision_count = max_revisions, whichever beat of the chapter it is.
C2_ExactlyCapRewrites ==
    \A w \in Workers :
        (task[w].pc = "persist" /\ task[w].all_rejected)
            => /\ task[w].revision_count = max_revisions
               /\ task[w].beat_revision_count = max_revisions

C2_Witness ==
    \E w \in Workers :
        /\ task[w].pc = "persist"
        /\ task[w].all_rejected
        /\ task[w].i = MaxBeats
        /\ task[w].revision_count = max_revisions

\* C3: after a review (any score 1..10, either value of recommend_rewrite,
\* revision count below the cap) the prose is accepted without a further
\* rewrite exactly when the score is at least 6 or no rewrite is recommended;
\* with the stub reviewer that always scores 8 no beat is ever revised.
C3_Step(w) ==
    /\ task[w].pc = "decide" =>
          /\ task[w].revision_count < max_revisions
          /\ task[w].report \in Reports
    /\ (task[w].pc = "decide" /\ task'[w] # task[w]) =>
          ( ( /\ task'[w].pc = "persist"
              /\ task'[w].prose = task[w].prose
              /\ task'[w].revision_count = task[w].revision_count )
            <=> ( \/ task[w].report.overall_quality >= 6
                  \/ ~task[w].report.recommend_rewrite ) )
    /\ stubs = "det" => task'[w].revision_count = 0

C3_AcceptIffGoodOrNotRecommended == [][\A w \in Workers : C3_Step(w)]_vars

C3_Witness ==
    \E w \in Workers :
        /\ task[w].pc = "persist"
        /\ task[w].report.overall_quality \in 1..5
        /\ ~task[w].report.recommend_rewrite
        /\ task[w].revision_count = 0

\* C4: every beat whose write has started is eventually accepted, and every
\* chapter whose beats were decomposed is eventually finalised unless a
\* pause interrupts it at a beat boundary.
C4_BeatLoopTerminates ==
    \A w \in Workers :
        /\ (task[w].pc \in {"write", "review", "decide"}) ~> (task[w].pc = "persist")
        /\ \A c \in 1..NumChapters :
             (task[w].pc = "boundary" /\ task[w].chapter = c)
                ~> (chapters[c].status = "completed" \/ task[w].pc = "interrupted")

C4_Witness ==
    \E w \in Workers, c \in 1..NumChapters :
        /\ chapters[c].status = "completed"
        /\ Len(beats[c]) = MaxBeats
        /\ task[w].pc = "persist"
        /\ task[w].report = NoReport
        /\ task[w].revision_count = max_revisions

\* ---------------------------------------------- texts used by the properties

\* the prose of a chapter's beats in Beat.order
ProseInOrder(c) ==
    [k \in 1..Len(beats[c]) |-> beats[c][SortedRows(beats[c])[k]].raw_text]

\* the beats of a chapter that are persisted as completed, in Beat.order
CompletedProse(c) ==
    SelectSeq(
        [k \in 1..Len(beats[c]) |->
            IF beats[c][SortedRows(beats[c])[k]].status = "completed"
            THEN beats[c][SortedRows(beats[c])[k]].raw_text ELSE None],
        LAMBDA p : p # None)

\* the texts joined with the paragraph break between consecutive texts
RECURSIVE JoinProse(_)
JoinProse(ps) ==
    IF ps = <<>> THEN <<>>
    ELSE IF Len(ps) = 1 THEN ps[1]
    ELSE ps[1] \o Separator \o JoinProse(Tail(ps))

\* the text the beat loop of generate_chapter accumulates over the texts
RECURSIVE Accumulate(_)
Accumulate(ps) ==
    IF ps = <<>> THEN <<>>
    ELSE AppendBeat(Accumulate(SubSeq(ps, 1, Len(ps) - 1)), ps[Len(ps)])

IsPrefix(p, t) == Len(p) <= Len(t) /\ SubSeq(t, 1, Len(p)) = p

\* the chapter text of an uninterrupted run with the deterministic stubs, up to beat n
UninterruptedText(n) == Accumulate([k \in 1..n |-> StubProse(k)])

\* C5: the text persisted for a completed chapter is the accepted prose of
\* its beats in beat order, joined with the paragraph break between
\* consecutive beats, for every beat prose including the empty one.
C5_ChapterTextIsJoinedProse ==
    \A c \in 1..NumChapters :
        chapters[c].status = "completed"
            => chapters[c].raw_text = JoinProse(ProseInOrder(c))

\* C6: as soon as a beat is persisted as completed, the accumulated chapter
\* text is persisted too: the persisted chapter text starts with the text
\* accumulated over the completed beats.
C6_ChapterTextPersistedPerBeat ==
    \A c \in 1..NumChapters :
        CompletedProse(c) # <<>>
            => /\ chapters[c].raw_text # None
               /\ IsPrefix(Accumulate(CompletedProse(c)), chapters[c].raw_text)

\* C7: generate_chapter never writes a beat that is already persisted as
\* completed: the beat in the write/review/revise loop is not yet completed.
C7_CompletedBeatsNotRewritten ==
    \A w \in Workers :
        task[w].pc \in {"write", "review", "decide", "persist"}
            => beats[task[w].chapter][CurrentRow(w)].status # "completed"

\* C8: a task that reaches a beat boundary while the pause flag is set does
\* not start the next beat but unwinds; when it has unwound the project is
\* paused, the beats before the boundary are persisted as completed with
\* the prose accepted for them, and no later beat has been written.
C8_Step(w) ==
    LET c == task[w].chapter
        at(k) == beats'[c][task[w].blist[k]] IN
    /\ ( /\ task[w].pc = "boundary"
         /\ task[w].i <= Len(task[w].blist)
         /\ project_id \in pause_signals
         /\ task'[w] # task[w] )
          => /\ task'[w].pc = "interrupted"
             /\ beats' = beats
    /\ (task[w].pc = "interrupted" /\ task'[w] # task[w])
          => /\ task'[w].pc = "done"
             /\ project'.status = "paused"
             /\ beats' = beats
             /\ chapters' = chapters
             /\ \A k \in 1..Len(task[w].blist) :
                  IF k < task[w].i
                  THEN at(k).status = "completed" /\ at(k).raw_text # None
                  ELSE at(k).status = "pending" /\ at(k).raw_text = None
             /\ Accumulate([k \in 1..(task[w].i - 1) |-> at(k).raw_text])
                  = task[w].chapter_text

MidChapterPaused ==
    {c \in 1..NumChapters :
        /\ chapters[c].status = "generating"
        /\ CompletedProse(c) # <<>>
        /\ \A w \in Workers :
             ~(task[w].chapter = c /\ task[w].pc \notin {"idle", "done"})}

\* C9: while a chapter interrupted by a pause is waiting, a task started by
\* resume does nothing but re-enter that chapter: it generates no other
\* chapter and does not finish before that chapter is completed.
C9_ResumeReentersPausedChapter ==
    \A w \in Workers : \A k \in MidChapterPaused :
        task[w].resumed
            => \/ task[w].pc \in {"idle", "queued"}
               \/ task[w].pc = "done" /\ task[w].outcome = "paused"
               \/ /\ task[w].pc = "next_chapter"
                  /\ task[w].todo # <<>>
                  /\ Head(task[w].todo) = k

\* C10: with the deterministic stubs, when a resumed run has finished, the
\* text of every chapter of which n beats were completed starts with the
\* text an uninterrupted run has accumulated after n beats.
C10_ResumedTextMatchesUninterrupted ==
    \A w \in Workers :
        ( /\ stubs = "det"
          /\ task[w].resumed
          /\ task[w].pc = "done"
          /\ task[w].outcome = "completed" )
            => \A c \in 1..NumChapters :
                 CompletedProse(c) # <<>>
                    => /\ chapters[c].raw_text # None
                       /\ IsPrefix(UninterruptedText(Len(CompletedProse(c))),
                                   chapters[c].raw_text)

\* C11: the pause flag is consulted only at beat boundaries: a task that has
\* started writing a beat goes on to persist it without consuming the flag,
\* and a task is interrupted only at a boundary, with no prose in flight and
\* every beat of the chapter either completed with its prose or untouched.
C11_Step(w) ==
    LET c == task[w].chapter IN
    /\ (task[w].pc \in {"write", "review", "decide", "persist"} /\ task'[w] # task[w])
          => /\ task'[w].pc \in {"review", "decide", "persist", "boundary"}
             /\ task'[w].i \in {task[w].i, task[w].i + 1}
             /\ pause_signals' = pause_signals
    /\ (task'[w].pc = "interrupted" /\ task[w].pc # "interrupted")
          => /\ task[w].pc = "boundary"
             /\ task[w].prose = <<>>
             /\ \A k \in 1..Len(task[w].blist) :
                  LET b == beats'[c][task[w].blist[k]] IN
                  \/ b.status = "completed" /\ b.raw_text # None
                  \/ b.status = "pending" /\ b.raw_text = None

C11_PauseOnlyAtBeatBoundary == [][\A w \in Workers : C11_Step(w)]_vars

C11_Witness ==
    \E w \in Workers :
        /\ task[w].pc = "persist"
        /\ task[w].revision_count >= 1
        /\ project_id \in pause_signals
        /\ project.status = "paused"

\* C12: when the decomposition call has failed for chapter k, chapter k is
\* failed and the project is failed, and every completed chapter still has
\* its text.
C12_DecompositionFailureMarksFailed ==
    \A w \in Workers :
        (task[w].pc = "done" /\ task[w].outcome = "error_decompose")
            => /\ chapters[task[w].chapter].status = "failed"
               /\ project.status = "failed"
               /\ \A c \in 1..NumChapters :
                    chapters[c].status = "completed" => chapters[c].raw_text # None

\* C13: a failing decomposition call creates no Beat row: the step in which
\* it fails leaves the beat table unchanged and the chapter has no beats.
C13_Step(w) ==
    (task[w].pc = "decompose" /\ task'[w].outcome = "error_decompose")
        => /\ beats' = beats
           /\ beats'[task[w].chapter] = <<>>

C13_NoBeatsOnDecompositionFailure == [][\A w \in Workers : C13_Step(w)]_vars

C13_Witness ==
    \E w \in Workers :
        /\ task[w].pc = "done"
        /\ task[w].outcome = "error_decompose"
        /\ task[w].chapter = NumChapters
        /\ beats[task[w].chapter] = <<>>
        /\ chapters[1].status = "completed"

\* no background task is queued or running for the project
NoTaskRunning == \A w \in Workers : task[w].pc = "idle"

\* C18: every started task ends as paused, completed or failed: once no
\* task is running the project is not left in outlining or generating.
C18_TaskEndsObservably ==
    NoTaskRunning => project.status \notin {"outlining", "generating"}

\* C19: a failing context lookup never aborts generate_chapter: no task
\* ends because assembling the context raised.
C19_ContextFailureNotFatal ==
    \A w \in Workers :
        ~(task[w].pc = "done" /\ task[w].outcome = "error_context")

\* C20: in the beat rows persisted for a chapter no two beats of consecutive
\* order are both of type revelation, whatever the decomposition returned.
C20_NoConsecutiveRevelations ==
    \A c \in 1..NumChapters : \A r1, r2 \in 1..Len(beats[c]) :
        beats[c][r2].order = beats[c][r1].order + 1
            => ~( /\ beats[c][r1].beat_type = "revelation"
                  /\ beats[c][r2].beat_type = "revelation" )

\* C14: project.current_chapter never decreases, and when it changes to k
\* the chapter of order k is completed.
C14_CurrentChapterMonotonic ==
    [][ /\ project'.current_chapter >= project.current_chapter
        /\ project'.current_chapter # project.current_chapter
             => chapters'[project'.current_chapter].status = "completed" ]_vars

\* the positions of a task inside generate_chapter
InChapter == {"decompose", "boundary", "interrupted", "write", "review",
              "decide", "persist"}

\* C15: generation of a project is one sequential pipeline: at no time are
\* two tasks inside generate_chapter for the same project.
C15_OnePipelinePerProject ==
    \A w1, w2 \in Workers :
        (task[w1].pc \in InChapter /\ task[w2].pc \in InChapter) => w1 = w2

\* a step of a controller endpoint: no running task moves, at most a new
\* task is queued in a free slot
EndpointStep ==
    /\ \A w \in Workers : task'[w] = task[w] \/ task[w].pc = "idle"
    /\ <<project, pause_signals, task>>' # <<project, pause_signals, task>>

\* C16: an endpoint changes the project only from its required status:
\* outline start from draft or outline_rejected, approval or revision from
\* outline_pending_approval, chapter generation from outline_approved, pause
\* from generating (the only one that touches the pause set), resume from
\* paused; in every other status the call changes nothing.
C16_Step ==
    EndpointStep =>
        /\ project'.current_chapter = project.current_chapter
        /\ \/ /\ project.status \in {"draft", "outline_rejected"}
              /\ project'.status = "outlining"
              /\ pause_signals' = pause_signals
           \/ /\ project.status = "outline_pending_approval"
              /\ project'.status \in {"outline_approved", "outline_pending_approval"}
              /\ pause_signals' = pause_signals
           \/ /\ project.status = "outline_approved"
              /\ project'.status = "generating"
              /\ pause_signals' = pause_signals
           \/ /\ project.status = "generating"
              /\ project'.status = "paused"
              /\ pause_signals' = pause_signals \cup {project_id}
           \/ /\ project.status = "paused"
              /\ project'.status = "generating"
              /\ pause_signals' = pause_signals

C16_EndpointsGuardedByStatus == [][C16_Step]_vars

C16_Witness ==
    \E w \in Workers :
        /\ task[w].resumed
        /\ task[w].pc = "queued"
        /\ project.status = "generating"
        /\ Len(chapters) = NumChapters

\* C17: pause is idempotent: a pause call on a paused project changes
\* neither the project nor the pause set, an accepted pause call leaves the
\* state a second call would leave, and signalling twice equals signalling
\* once.
C17_Step ==
    /\ ( /\ project.status = "paused"
         /\ project'.status = "paused"
         /\ \A w \in Workers : task'[w] = task[w] )
          => /\ project' = project
             /\ pause_signals' = pause_signals
    /\ ( /\ project.status = "generating"
         /\ project'.status = "paused"
         /\ task' = task )
          => /\ pause_signals' = signal_pause(pause_signals, project_id)
             /\ signal_pause(pause_signals', project_id) = pause_signals'

C17_PauseIdempotent == [][C17_Step]_vars

C17_Witness ==
    /\ project.status = "paused"
    /\ project_id \notin pause_signals
    /\ \E c \in 1..NumChapters : CompletedProse(c) # <<>>

\* C22: whenever the project is completed every chapter is completed and
\* has its text.
C22_CompletedProjectHasAllChapters ==
    project.status = "completed"
        => \A c \in 1..NumChapters :
             /\ chapters[c].status = "completed"
             /\ chapters[c].raw_text # None

\* C23: a pause flag does not outlive the pipeline it was set for: once no
\* task is running for the project its flag is not set, so that no later
\* pipeline finds a stale flag.
C23_NoStalePauseFlag ==
    NoTaskRunning => project_id \notin pause_signals

\* C24: the prose accepted for a beat has been reviewed: the task that is
\* about to persist a beat holds the review report of the prose it persists.
C24_AcceptedProseWasReviewed ==
    \A w \in Workers :
        task[w].pc = "persist" => task[w].report \in Reports

\* C25: once the project is paused its status changes only by a resume
\* call, which sets it to generating and queues a resumed task.
C25_PausedUntilResume ==
    [][ (project.status = "paused" /\ project'.status # "paused")
          => /\ project'.status = "generating"
             /\ EndpointStep
             /\ \E w \in Workers : task'[w].pc = "queued" /\ task'[w].resumed ]_vars

\* C27: the scene of a chapter holds exactly one Beat row per beat order.
C27_OneBeatRowPerOrder ==
    \A c \in 1..NumChapters : \A r1, r2 \in 1..Len(beats[c]) :
        beats[c][r1].order = beats[c][r2].order => r1 = r2

\* C21: in every backing a project whose pause flag was signalled and not
\* yet cleared is seen as paused by check_pause in the worker.
C21_SignalSeenByWorker ==
    project_id \in pause_signals => check_pause(project_id)

\* C26: the last progress report before a chapter is finalized says that
\* all its beats are completed (n of n).
C26_ProgressEndsAtTotal ==
    [][ \A w \in Workers :
          (task[w].pc = "boundary" /\ task'[w].pc = "next_chapter")
              => task[w].completed_beats = Len(task[w].blist) ]_vars

\* C28: every completed chapter has had a scene passed to index_scene.
C28_CompletedChapterIndexed ==
    \A c \in 1..NumChapters :
        chapters[c].status = "completed" => c \in indexed

\* C30: when the graph workflow has accepted a beat it has made as many
\* reviews and as many rewrites as _write_beat_with_editing makes on the
\* same review outcomes.
C30_BeatLoopsAgree ==
    graph.node = "update_memory"
        => /\ graph.reviews = write_beat_with_editing(graph.script).reviews
           /\ graph.rewrites = write_beat_with_editing(graph.script).rewrites

\* C29: a single failure of a write, review or rewrite call does not end
\* the chapter: the task is still in the chapter after the step.
C29_BeatFailureRetried ==
    [][ \A w \in Workers :
          task[w].pc \in {"write", "review", "decide"}
              => task'[w].pc # "done" ]_vars

====
